---- MODULE Spec2Model ----
(***************************************************************************)
(* The dispatch coordinator of backend/agents/logistics_agent.py           *)
(* (run_logistics_agent and the functions it calls) as a state machine     *)
(* over the MongoDB collections it shares with other coordinator           *)
(* processes: reports, needs, missions and emergencystations.              *)
(*                                                                         *)
(* One step of a coordinator is one store operation (find, insert_one,     *)
(* update_many) together with the process-local code that precedes it, so  *)
(* that two coordinators interleave exactly where two Python processes     *)
(* can.  A missing document field (and Python's None) is the empty tuple   *)
(* <<>>, a present value v is <<v>>.  Coordinates are in thousandths of a   *)
(* degree, distances in metres, durations in seconds.                      *)
(*                                                                         *)
(* The sentinel of backend/agents/sentinel_agent.py (main, process_report, *)
(* find_and_lock_pending_report) is a second kind of process on the        *)
(* reports collection; its runs are specified apart from the               *)
(* coordinator's.                                                          *)
(***************************************************************************)
EXTENDS Integers, Sequences, FiniteSets, TLC

VARIABLES
    procs,      \* the coordinator processes that run
    reports,    \* the 'reports' collection: _id -> document
    needs,      \* the 'needs' collection: _id -> document
    missions,   \* the 'missions' collection, in insertion order
    stations,   \* the active documents of the 'emergencystations' collection
    agent,      \* coordinator -> its local variables, position and cycle log
    faults,     \* store operations that have failed so far
    overrides,  \* human re-routes made so far
    osrm,       \* the responses the routing service gives in this run
    sentinel    \* sentinel process -> its local variables and position

vars ==
    <<procs, reports, needs, missions, stations, agent, faults, overrides, osrm, sentinel>>

-----------------------------------------------------------------------------
(* Bounds of the model *)

MaxFaults == 1
MaxOverrides == 1

\* The largest value of the sentinel's cycle counter that is told apart.
MaxCycleCount == 3

\* The sentinel processes that are terminated in a run.
MaxStops == 1

(* Program constants *)

MIN_CLUSTER_SIZE == 1
SEVERITY_THRESHOLD == 0

Coordinators == {"c1", "c2"}

\* The _ids of the documents in 'reports' and in 'needs'.
ReportIds == {1, 2}
NeedIds == {1}

Absent == <<>>
Some(v) == <<v>>

\* Python truthiness of an optional number: None and 0 are falsy.
Truthy(x) == x # Absent /\ x[1] # 0

-----------------------------------------------------------------------------
(* Documents *)

\* What the human re-route path writes into rerouted_to_station: a station
\* picked with its coordinates, or a category only.
OverrideStations ==
    { [type |-> "police", name |-> "PS-1", lat |-> Some(18000), lon |-> Some(74000)],
      [type |-> "fire", name |-> "FS-1", lat |-> Absent, lon |-> Absent] }

\* Overrides that name a category outside police, hospital, fire, rescue,
\* or no category at all.
OtherOverrideStations ==
    { [type |-> "ambulance", name |-> "AMB-1", lat |-> Absent, lon |-> Absent],
      [type |-> "", name |-> "PS-1", lat |-> Some(18000), lon |-> Some(74000)],
      [type |-> "police", name |-> "PS-Equator", lat |-> Some(0), lon |-> Some(73000)] }

\* The documents the intake workflow creates in 'reports' (without _id).
ReportDocs ==
    { [status |-> "Analyzed_Full", emergencyStatus |-> Absent, severity |-> Some(5),
       dispatch_status |-> Absent, lat |-> Some(18000), lng |-> Some(73000)],
      [status |-> "Analyzed", emergencyStatus |-> Some("accepted"), severity |-> Some(1),
       dispatch_status |-> Some("Unassigned"), lat |-> Some(0), lng |-> Some(0)],
      [status |-> "Analyzed_Full", emergencyStatus |-> Absent, severity |-> Some(0),
       dispatch_status |-> Some("Unassigned"), lat |-> Some(18000), lng |-> Some(73000)],
      [status |-> "Analyzed_Full", emergencyStatus |-> Some("rejected"), severity |-> Some(5),
       dispatch_status |-> Some("Unassigned"), lat |-> Some(18000), lng |-> Some(73000)],
      [status |-> "Analyzed_Visual", emergencyStatus |-> Absent, severity |-> Absent,
       dispatch_status |-> Absent, lat |-> Some(18000), lng |-> Some(73000)],
      [status |-> "Analyzed", emergencyStatus |-> Absent, severity |-> Some(5),
       dispatch_status |-> Some("Unassigned"), lat |-> Absent, lng |-> Absent],
      [status |-> "Analyzed", emergencyStatus |-> Absent, severity |-> Some(5),
       dispatch_status |-> Absent, lat |-> Some(18000), lng |-> Absent] }

\* The documents the intake workflow creates in 'needs' (without _id).
NeedDocs ==
    { [status |-> "Verified", emergencyStatus |-> Absent,
       dispatch_status |-> Absent, lat |-> Some(18000), lon |-> Some(73000)],
      [status |-> "Verified", emergencyStatus |-> Some("accepted"),
       dispatch_status |-> Some("Unassigned"), lat |-> Some(0), lon |-> Some(73000)],
      [status |-> "Verified", emergencyStatus |-> Some("rejected"),
       dispatch_status |-> Some("Unassigned"), lat |-> Some(18000), lon |-> Some(73000)],
      [status |-> "Unverified", emergencyStatus |-> Absent,
       dispatch_status |-> Absent, lat |-> Some(18000), lon |-> Some(73000)],
      [status |-> "Verified", emergencyStatus |-> Absent,
       dispatch_status |-> Some("Unassigned"), lat |-> Absent, lon |-> Absent] }

\* One document of 'emergencystations'.
Station(type, name, lat, lng, status) ==
    [type |-> type, name |-> name, lat |-> lat, lng |-> lng, status |-> status]

\* The states of the station registry, in registry order: empty, or one
\* active station.
Registries ==
    { <<>>, <<Station(Some("fire"), "FS-1", Some(18000), Some(74000), "active")>> }

\* The text fields of a report: text, sentinelData.tag, oracleData.needs.
ReportText(text, tag, needs_array) == [text |-> text, tag |-> tag, needs |-> needs_array]

\* The text fields of a need: triageData.needType, rawMessage,
\* triageData.details.
NeedText(needType, rawMessage, details) ==
    [needType |-> needType, rawMessage |-> rawMessage, details |-> details]

NewReport(id, d, t) ==
    [_id |-> id, status |-> d.status, emergencyStatus |-> d.emergencyStatus,
     severity |-> d.severity, dispatch_status |-> d.dispatch_status,
     lat |-> d.lat, lng |-> d.lng,
     text |-> t.text, tag |-> t.tag, needs |-> t.needs,
     mission_id |-> Absent, rerouted_to_station |-> Absent]

NewNeed(id, d, t) ==
    [_id |-> id, status |-> d.status, emergencyStatus |-> d.emergencyStatus,
     dispatch_status |-> d.dispatch_status, lat |-> d.lat, lon |-> d.lon,
     needType |-> t.needType, rawMessage |-> t.rawMessage, details |-> t.details,
     mission_id |-> Absent, rerouted_to_station |-> Absent]

-----------------------------------------------------------------------------
(* Queries *)

\* The eligibility queries without their $or on dispatch_status.
AnyDispatchStatus(d) == TRUE

\* The $or of both eligibility queries: dispatch_status missing, Unassigned
\* or Pending.
Unclaimed(d) ==
    \/ d.dispatch_status = Absent
    \/ d.dispatch_status = Some("Unassigned")
    \/ d.dispatch_status = Some("Pending")

\* get_critical_reports without the {'dispatch_status': {'$exists': False}}
\* branch of its $or.
CriticalReportQueryNoMissing(d) ==
    /\ d.severity # Absent /\ d.severity[1] > SEVERITY_THRESHOLD
    /\ d.status \in {"Analyzed_Full", "Analyzed"}
    /\ d.emergencyStatus # Some("rejected")
    /\ d.dispatch_status \in {Some("Unassigned"), Some("Pending")}

\* The filter of get_critical_reports.
CriticalReportQuery(d) ==
    /\ d.severity # Absent /\ d.severity[1] > SEVERITY_THRESHOLD
    /\ d.status \in {"Analyzed_Full", "Analyzed"}
    /\ d.emergencyStatus # Some("rejected")
    /\ Unclaimed(d)

\* The filter of get_verified_needs.
VerifiedNeedQuery(d) ==
    /\ d.status = "Verified"
    /\ d.emergencyStatus # Some("rejected")
    /\ Unclaimed(d)
    /\ d.lat # Absent
    /\ d.lon # Absent

\* A collection's documents in natural (_id) order, as find() returns them.
Documents(coll) == [k \in 1..Cardinality(DOMAIN coll) |-> coll[k]]

get_critical_reports(coll) == SelectSeq(Documents(coll), CriticalReportQuery)

get_verified_needs(coll) == SelectSeq(Documents(coll), VerifiedNeedQuery)

-----------------------------------------------------------------------------
(* Text and the classifier *)

\* A string is the sequence of its pieces: words and single spaces.  The
\* empty string is <<>>.  str.lower() maps each piece to its lower case.
Lower(w) ==
    CASE w = "Medical" -> "medical"
      [] w = "Stampede" -> "stampede"
      [] w = "Fire" -> "fire"
      [] w = "Rescue" -> "rescue"
      [] w = "Gas" -> "gas"
      [] OTHER -> w

lower(s) == [k \in 1..Len(s) |-> Lower(s[k])]

\* keyword in text: substring containment.
In(keyword, text) ==
    \E k \in 0..(Len(text) - Len(keyword)) :
        \A j \in 1..Len(keyword) : text[k + j] = keyword[j]

NEED_TO_STATION_MAP ==
    << <<<<"fire", " ", "suppression">>, "fire">>,
       <<<<"gas", " ", "leak">>, "fire">>,
       <<<<"hazmat">>, "fire">>,
       <<<<"chemical">>, "fire">>,
       <<<<"fire">>, "fire">>,
       <<<<"burning">>, "fire">>,
       <<<<"smoke">>, "fire">>,
       <<<<"blaze">>, "fire">>,
       <<<<"need", " ", "police">>, "police">>,
       <<<<"call", " ", "police">>, "police">>,
       <<<<"stampede">>, "police">>,
       <<<<"panic">>, "police">>,
       <<<<"crowd">>, "police">>,
       <<<<"riot">>, "police">>,
       <<<<"police">>, "police">>,
       <<<<"security">>, "police">>,
       <<<<"crime">>, "police">>,
       <<<<"theft">>, "police">>,
       <<<<"robbery">>, "police">>,
       <<<<"violence">>, "police">>,
       <<<<"law", " ", "enforcement">>, "police">>,
       <<<<"need", " ", "ambulance">>, "hospital">>,
       <<<<"medical">>, "hospital">>,
       <<<<"health">>, "hospital">>,
       <<<<"injury">>, "hospital">>,
       <<<<"injured">>, "hospital">>,
       <<<<"sick">>, "hospital">>,
       <<<<"ambulance">>, "hospital">>,
       <<<<"bleeding">>, "hospital">>,
       <<<<"unconscious">>, "hospital">>,
       <<<<"rescue">>, "rescue">>,
       <<<<"trapped">>, "rescue">>,
       <<<<"stuck">>, "rescue">>,
       <<<<"flood">>, "rescue">>,
       <<<<"earthquake">>, "rescue">>,
       <<<<"collapse">>, "rescue">>,
       <<<<"evacuation">>, "rescue">>,
       <<<<"water">>, "rescue">>,
       <<<<"food">>, "rescue">>,
       <<<<"disaster">>, "rescue">>,
       <<<<"other">>, "rescue">> >>

\* The rules whose keyword the text contains, by position in the table.
Matching(text) ==
    {k \in 1..Len(NEED_TO_STATION_MAP) : In(NEED_TO_STATION_MAP[k][1], text)}

Least(S) == CHOOSE k \in S : \A j \in S : k <= j

\* for keyword, station_type in NEED_TO_STATION_MAP: if keyword in text:
\* return station_type.  <<>> when the loop ends without a match.
FirstMatch(text) ==
    IF Matching(text) = {} THEN Absent
    ELSE Some(NEED_TO_STATION_MAP[Least(Matching(text))][2])

\* The for loop over the needs array of determine_station_type.
FirstMatchInNeeds(needs_array) ==
    LET hits == {k \in 1..Len(needs_array) : FirstMatch(lower(needs_array[k])) # Absent}
    IN IF hits = {} THEN Absent ELSE FirstMatch(lower(needs_array[Least(hits)]))

\* rerouted and rerouted.get('type'): the override names a category.
OverrideHasType(d) ==
    d.rerouted_to_station # Absent /\ d.rerouted_to_station[1].type # ""

\* determine_station_type with the needs array consulted before the text.
determine_station_type_needs_first(report) ==
    IF OverrideHasType(report) THEN report.rerouted_to_station[1].type
    ELSE IF FirstMatchInNeeds(report.needs) # Absent
         THEN FirstMatchInNeeds(report.needs)[1]
    ELSE IF FirstMatch(lower(report.text)) # Absent THEN FirstMatch(lower(report.text))[1]
    ELSE IF FirstMatch(lower(report.tag)) # Absent THEN FirstMatch(lower(report.tag))[1]
    ELSE "rescue"

\* determine_station_type without its Priority 0 branch.
determine_station_type_no_override(report) ==
    IF FirstMatch(lower(report.text)) # Absent THEN FirstMatch(lower(report.text))[1]
    ELSE IF FirstMatch(lower(report.tag)) # Absent THEN FirstMatch(lower(report.tag))[1]
    ELSE IF FirstMatchInNeeds(report.needs) # Absent
         THEN FirstMatchInNeeds(report.needs)[1]
    ELSE "rescue"

determine_station_type(report) ==
    IF OverrideHasType(report) THEN report.rerouted_to_station[1].type
    ELSE IF FirstMatch(lower(report.text)) # Absent THEN FirstMatch(lower(report.text))[1]
    ELSE IF FirstMatch(lower(report.tag)) # Absent THEN FirstMatch(lower(report.tag))[1]
    ELSE IF FirstMatchInNeeds(report.needs) # Absent
         THEN FirstMatchInNeeds(report.needs)[1]
    ELSE "rescue"

\* combined_text = f"{need_type} {raw_message} {details}"
combined_text(need) ==
    lower(need.needType) \o <<" ">> \o lower(need.rawMessage) \o <<" ">> \o lower(need.details)

\* need_type_map of determine_station_type_for_need.
need_type_map(need_type) ==
    CASE need_type = <<"medical">> -> Some("hospital")
      [] need_type \in {<<"rescue">>, <<"water">>, <<"food">>, <<"other">>} -> Some("rescue")
      [] OTHER -> Absent

\* determine_station_type_for_need with the sources needType, rawMessage,
\* details searched one after the other, as determine_station_type does.
determine_station_type_for_need_by_source(need) ==
    LET sources == <<need.needType, need.rawMessage, need.details>>
    IN IF OverrideHasType(need) THEN need.rerouted_to_station[1].type
       ELSE IF FirstMatchInNeeds(sources) # Absent THEN FirstMatchInNeeds(sources)[1]
       ELSE IF need_type_map(lower(need.needType)) # Absent
            THEN need_type_map(lower(need.needType))[1]
       ELSE "rescue"

determine_station_type_for_need(need) ==
    IF OverrideHasType(need) THEN need.rerouted_to_station[1].type
    ELSE IF FirstMatch(combined_text(need)) # Absent
         THEN FirstMatch(combined_text(need))[1]
    ELSE IF need_type_map(lower(need.needType)) # Absent
         THEN need_type_map(lower(need.needType))[1]
    ELSE "rescue"

-----------------------------------------------------------------------------
(* Distance *)

\* The values of haversine, rounded to the metre, on the points of the
\* model (lat1, lon1, lat2, lon2 in thousandths of a degree).
HaversineMetres ==
    <<18000, 73000, 18000, 73000>> :> 0 @@
    <<18000, 73000, 0, 0>> :> 8212349 @@
    <<18000, 73000, 0, 73000>> :> 2001509 @@
    <<18000, 73000, 18000, 74000>> :> 105753 @@
    <<18000, 73000, 18000, 72000>> :> 105753 @@
    <<18000, 73000, 19000, 73000>> :> 111195 @@
    <<18000, 73000, 18521, 73854>> :> 107183 @@
    <<0, 0, 18000, 73000>> :> 8212349 @@
    <<0, 0, 0, 0>> :> 0 @@
    <<0, 0, 0, 73000>> :> 8117230 @@
    <<0, 0, 18000, 74000>> :> 8317661 @@
    <<0, 0, 18000, 72000>> :> 8107095 @@
    <<0, 0, 19000, 73000>> :> 8223085 @@
    <<0, 0, 18521, 73854>> :> 8307516 @@
    <<0, 73000, 18000, 73000>> :> 2001509 @@
    <<0, 73000, 0, 0>> :> 8117230 @@
    <<0, 73000, 0, 73000>> :> 0 @@
    <<0, 73000, 18000, 74000>> :> 2004493 @@
    <<0, 73000, 18000, 72000>> :> 2004493 @@
    <<0, 73000, 19000, 73000>> :> 2112704 @@
    <<0, 73000, 18521, 73854>> :> 2061553 @@
    <<18000, 74000, 18000, 73000>> :> 105753 @@
    <<18000, 74000, 0, 0>> :> 8317661 @@
    <<18000, 74000, 0, 73000>> :> 2004493 @@
    <<18000, 74000, 18000, 74000>> :> 0 @@
    <<18000, 74000, 18000, 72000>> :> 211504 @@
    <<18000, 74000, 19000, 73000>> :> 153243 @@
    <<18000, 74000, 18521, 73854>> :> 59949 @@
    <<18000, 72000, 18000, 73000>> :> 105753 @@
    <<18000, 72000, 0, 0>> :> 8107095 @@
    <<18000, 72000, 0, 73000>> :> 2004493 @@
    <<18000, 72000, 18000, 74000>> :> 211504 @@
    <<18000, 72000, 18000, 72000>> :> 0 @@
    <<18000, 72000, 19000, 73000>> :> 153243 @@
    <<18000, 72000, 18521, 73854>> :> 204164 @@
    <<19000, 73000, 18000, 73000>> :> 111195 @@
    <<19000, 73000, 0, 0>> :> 8223085 @@
    <<19000, 73000, 0, 73000>> :> 2112704 @@
    <<19000, 73000, 18000, 74000>> :> 153243 @@
    <<19000, 73000, 18000, 72000>> :> 153243 @@
    <<19000, 73000, 19000, 73000>> :> 0 @@
    <<19000, 73000, 18521, 73854>> :> 104506 @@
    <<18521, 73854, 18000, 73000>> :> 107183 @@
    <<18521, 73854, 0, 0>> :> 8307516 @@
    <<18521, 73854, 0, 73000>> :> 2061553 @@
    <<18521, 73854, 18000, 74000>> :> 59949 @@
    <<18521, 73854, 18000, 72000>> :> 204164 @@
    <<18521, 73854, 19000, 73000>> :> 104506 @@
    <<18521, 73854, 18521, 73854>> :> 0

haversine(lat1, lon1, lat2, lon2) == HaversineMetres[<<lat1, lon1, lat2, lon2>>]

-----------------------------------------------------------------------------
(* The station directory *)

DEFAULT_DEPOT ==
    [name |-> "Command Center - Pune", lat |-> Some(18521), lon |-> Some(73854)]

\* One document of 'emergencystations' in the internal format: the type
\* defaults to 'rescue', location.lng becomes lon.
InternalStation(station) ==
    [type |-> IF station.type = Absent THEN "rescue" ELSE station.type[1],
     name |-> station.name, lat |-> station.lat, lon |-> station.lng]

IsActive(station) == station.status = "active"

\* The registry query of get_registered_stations and its grouping loop: the
\* active stations in registry order, each with its type.
FetchStations(registry) ==
    LET active == SelectSeq(registry, IsActive)
    IN [k \in 1..Len(active) |-> InternalStation(active[k])]

\* registered_stations.get(station_type, [])
OfType(registered_stations, station_type) ==
    SelectSeq(registered_stations, LAMBDA s : s.type = station_type)

fallback_types(station_type) ==
    CASE station_type = "hospital" -> <<"ambulance", "rescue">>
      [] station_type = "ambulance" -> <<"hospital", "rescue">>
      [] station_type = "fire" -> <<"rescue">>
      [] station_type = "police" -> <<"rescue">>
      [] station_type = "rescue" -> <<"fire", "hospital", "police">>
      [] OTHER -> <<>>

\* get_nearest_station without its fallback mapping.
CandidatesOwnTypeOnly(registered_stations, station_type) ==
    OfType(registered_stations, station_type)

\* get_nearest_station if it went on to the fallback types when no station
\* of the requested type has coordinates.
CandidatesWithCoordinatesFirst(registered_stations, station_type) ==
    LET chain == <<station_type>> \o fallback_types(station_type)
        hits == {k \in 1..Len(chain) :
                    \E j \in 1..Len(registered_stations) :
                        /\ registered_stations[j].type = chain[k]
                        /\ registered_stations[j].lat # Absent
                        /\ registered_stations[j].lon # Absent}
    IN IF hits = {} THEN <<>> ELSE OfType(registered_stations, chain[Least(hits)])

\* The stations get_nearest_station chooses among: those of the requested
\* type, or of the first fallback type that has any.
Candidates(registered_stations, station_type) ==
    LET chain == fallback_types(station_type)
        hits == {k \in 1..Len(chain) : OfType(registered_stations, chain[k]) # <<>>}
    IN IF OfType(registered_stations, station_type) # <<>>
       THEN OfType(registered_stations, station_type)
       ELSE IF hits = {} THEN <<>>
       ELSE OfType(registered_stations, chain[Least(hits)])

\* dist <= min_distance in place of dist < min_distance.
CloserOrEqual(dist, min_distance) == min_distance = Absent \/ dist <= min_distance[1]

\* dist < min_distance, where min_distance starts as float('inf').
Closer(dist, min_distance) == min_distance = Absent \/ dist < min_distance[1]

\* station.get('lat') is None or station.get('lon') is None
NoCoordinates(station) == station.lat = Absent \/ station.lon = Absent

\* The for loop of get_nearest_station from station k on.
RECURSIVE ScanStations(_, _, _, _, _, _)
ScanStations(sts, k, report_lat, report_lng, nearest, min_distance) ==
    IF k > Len(sts) THEN nearest
    ELSE IF NoCoordinates(sts[k])
         THEN ScanStations(sts, k + 1, report_lat, report_lng, nearest, min_distance)
    ELSE LET dist == haversine(report_lat, report_lng, sts[k].lat[1], sts[k].lon[1])
         IN IF Closer(dist, min_distance)
            THEN ScanStations(sts, k + 1, report_lat, report_lng, Some(sts[k]), Some(dist))
            ELSE ScanStations(sts, k + 1, report_lat, report_lng, nearest, min_distance)

\* get_nearest_station on the dictionary get_registered_stations returned.
get_nearest_station(registered_stations, report_lat, report_lng, station_type) ==
    LET sts == Candidates(registered_stations, station_type)
        nearest == ScanStations(sts, 1, report_lat, report_lng, Absent, Absent)
    IN IF sts = <<>> THEN DEFAULT_DEPOT
       ELSE IF nearest # Absent THEN nearest[1] ELSE DEFAULT_DEPOT

-----------------------------------------------------------------------------
(* The route provider *)

\* What requests.get(...) and response.json() can give: an exception
\* (Timeout, another RequestException, a body that is not JSON) or a JSON
\* document with a code and a list of routes.  A route has the coordinates
\* of its GeoJSON geometry as <<lon, lat>> pairs, a distance and a duration;
\* a JSON null is <<>>.
Raised(kind) == [kind |-> kind, code |-> "", routes |-> <<>>]

Json(code, routes) == [kind |-> "Json", code |-> code, routes |-> routes]

OsrmRoute(coordinates, distance) ==
    [coordinates |-> coordinates, distance |-> distance, duration |-> Some(600)]

RoadRoute ==
    Json("Ok", <<OsrmRoute(<<<<74000, 18000>>, <<73500, 18200>>, <<73000, 18000>>>>,
                           Some(120000))>>)

OsrmFailures ==
    { Raised("Timeout"), Raised("RequestException"), Raised("ValueError"),
      Json("NoRoute", <<>>), Json("Ok", <<>>),
      Json("InvalidQuery",
           <<OsrmRoute(<<<<74000, 18000>>, <<73000, 18000>>>>, Some(120000))>>) }

OsrmResponses ==
    OsrmFailures \cup
    { RoadRoute,
      Json("Ok", <<OsrmRoute(<<>>, Some(0))>>),
      Json("Ok", <<OsrmRoute(<<<<73000, 18000>>>>, Some(0))>>),
      Json("Ok", <<OsrmRoute(<<<<74000, 18000>>, <<73000, 18000>>>>, Absent)>>) }

\* [[coord[1], coord[0]] for coord in osrm_route["geometry"]["coordinates"]]
LatLon(coordinates) ==
    [k \in 1..Len(coordinates) |-> <<coordinates[k][2], coordinates[k][1]>>]

\* get_osrm_route for two waypoints: the result (None is <<>>) and the
\* warning it prints.
get_osrm_route(response) ==
    CASE response.kind = "Timeout" ->
            [result |-> Absent, log |-> "OSRM request timed out"]
      [] response.kind = "RequestException" ->
            [result |-> Absent, log |-> "OSRM request failed"]
      [] response.kind = "ValueError" ->
            [result |-> Absent, log |-> "Error parsing OSRM response"]
      [] OTHER ->
            IF response.code # "Ok" \/ response.routes = <<>>
            THEN [result |-> Absent, log |-> "OSRM returned no routes"]
            ELSE [result |-> Some([geometry |-> LatLon(response.routes[1].coordinates),
                                   distance |-> response.routes[1].distance,
                                   duration |-> response.routes[1].duration]),
                  log |-> ""]

\* distance / 13.89, in whole seconds.
AtAssumedSpeed(distance) == (distance * 100) \div 1389

\* The else branch of get_route_with_fallback with the distance as duration.
FallbackRouteNoSpeed(origin, destination, station_type, station_name) ==
    LET distance == haversine(origin[1], origin[2], destination[1], destination[2])
    IN [vehicle_id |-> 0, route |-> <<origin, destination>>,
        total_distance |-> Some(distance), duration |-> Some(distance),
        station_type |-> station_type, station_name |-> station_name,
        is_road_snapped |-> FALSE]

\* The else branch of get_route_with_fallback: the straight line.
FallbackRoute(origin, destination, station_type, station_name) ==
    LET distance == haversine(origin[1], origin[2], destination[1], destination[2])
    IN [vehicle_id |-> 0, route |-> <<origin, destination>>,
        total_distance |-> Some(distance), duration |-> Some(AtAssumedSpeed(distance)),
        station_type |-> station_type, station_name |-> station_name,
        is_road_snapped |-> FALSE]

get_route_with_fallback(origin, destination, station_type, station_name, response) ==
    LET osrm_result == get_osrm_route(response).result
    IN IF osrm_result # Absent
       THEN [vehicle_id |-> 0, route |-> osrm_result[1].geometry,
             total_distance |-> osrm_result[1].distance,
             duration |-> osrm_result[1].duration,
             station_type |-> station_type, station_name |-> station_name,
             is_road_snapped |-> TRUE]
       ELSE FallbackRoute(origin, destination, station_type, station_name)

-----------------------------------------------------------------------------
(* A coordinator process *)

\* The local variables of the loop body are dead once a pass has ended.
EndPass(a) ==
    [a EXCEPT !.station_type = Absent, !.station = Absent, !.route = Absent,
              !.osrm_log = Absent, !.mission_id = Absent, !.lookup = Absent]

\* pc: "poll" (top of the while loop), "report" (top of the body of the
\* reports loop, at item i), "report_insert" and "report_update" (the two
\* store writes of save_mission), "needs_query", "need", "need_insert",
\* "need_update" (the same for PART 2) and "sleep".
\* lookup is the record of the pass's call of get_registered_stations.
\* seen, errors and loop_error are what the cycle has printed so far: the
\* items whose processing began, in order; the items whose processing raised,
\* with the operation that raised; the operation whose exception reached the
\* handler of the while loop.  'refreshed_from' is the registry as the last
\* refresh of the cache found it.
AgentAtLoopEntry(registry) ==
    [pc |-> "poll", reports |-> <<>>, verified_needs |-> <<>>, i |-> 1,
     station_type |-> Absent, station |-> Absent, route |-> Absent,
     osrm_log |-> Absent, mission_id |-> Absent, lookup |-> Absent,
     stations_cache |-> FetchStations(registry), cache_fresh |-> TRUE,
     refreshed_from |-> registry,
     seen |-> <<>>, errors |-> {}, loop_error |-> Absent]

InReports(a) == a.pc \in {"report", "report_insert", "report_update"}

InNeeds(a) == a.pc \in {"need", "need_insert", "need_update"}

\* The document the loop body is working on.
Current(a) == IF InReports(a) THEN a.reports[a.i] ELSE a.verified_needs[a.i]

Item(a) == <<IF InReports(a) THEN "report" ELSE "need", Current(a)._id>>

\* The end of one pass of the reports loop: the next report, or PART 2.
ContinueReports(a) ==
    IF a.i < Len(a.reports)
    THEN [EndPass(a) EXCEPT !.pc = "report", !.i = a.i + 1]
    ELSE [EndPass(a) EXCEPT !.pc = "needs_query", !.i = 1]

\* The end of one pass of the needs loop: the next need, or the sleep.
ContinueNeeds(a) ==
    IF a.i < Len(a.verified_needs)
    THEN [EndPass(a) EXCEPT !.pc = "need", !.i = a.i + 1]
    ELSE [EndPass(a) EXCEPT !.pc = "sleep", !.i = 1]

Continue(a) == IF InReports(a) THEN ContinueReports(a) ELSE ContinueNeeds(a)

\* The handler of the try around one item with break in place of continue.
ItemExceptBreaks(a, op) ==
    [EndPass(a) EXCEPT !.errors = @ \cup {[item |-> Item(a), op |-> op]},
                       !.pc = IF InReports(a) THEN "needs_query" ELSE "sleep",
                       !.i = 1]

\* The handler of the try around one item: print the error and continue.
ItemExcept(a, op) ==
    Continue([a EXCEPT !.errors = @ \cup {[item |-> Item(a), op |-> op]}])

\* The handler of the while loop if PART 1 had a try of its own: after a
\* failed reports query the cycle would go on with PART 2.
LoopExceptPerPart(a, op) ==
    [a EXCEPT !.pc = IF op = "get_critical_reports" THEN "needs_query" ELSE "sleep",
              !.loop_error = Some(op)]

\* The handler of the try around the whole cycle: print the error; the sleep
\* follows.
LoopExcept(a, op) ==
    [a EXCEPT !.pc = "sleep", !.loop_error = Some(op)]

\* The test of get_registered_stations with the time condition alone.
CacheValidTtlOnly(a) == a.cache_fresh

\* The test of get_registered_stations without the time condition.
CacheValidNeverExpires(a) == a.stations_cache # <<>>

\* The test of get_registered_stations for answering from the cache.
CacheValid(a) == a.stations_cache # <<>> /\ a.cache_fresh

\* The override names a station with coordinates: the directory is bypassed.
OverrideHasCoordinates(d) ==
    /\ d.rerouted_to_station # Absent
    /\ Truthy(d.rerouted_to_station[1].lat)
    /\ Truthy(d.rerouted_to_station[1].lon)

\* What one call of get_registered_stations did: where its answer came from,
\* whether STATIONS_CACHE_TTL had elapsed since the last refresh, how many
\* stations the cache held when it was called, and the registry as it was
\* then.
Read(a, source) ==
    [source |-> source, expired |-> ~a.cache_fresh, cached |-> Len(a.stations_cache),
     registry |-> stations]

\* get_registered_stations as get_nearest_station calls it: the cache if it
\* is valid, else the registry, which becomes the cache.
get_registered_stations(a) ==
    IF CacheValid(a) THEN [a EXCEPT !.lookup = Some(Read(a, "cache"))]
    ELSE [a EXCEPT !.stations_cache = FetchStations(stations), !.cache_fresh = TRUE,
                   !.refreshed_from = stations,
                   !.lookup = Some(Read(a, "registry"))]

\* The loop body from its location check to the call of save_mission, for a
\* report that has a location.
ResolveStation(a) ==
    IF OverrideHasCoordinates(Current(a)) THEN a ELSE get_registered_stations(a)

\* The location check of the reports loop.
ReportSkipped(d) == d.lat = Absent

\* The location check of the needs loop.
NeedSkipped(d) == ~Truthy(d.lat) \/ ~Truthy(d.lon)

\* The body reaches the station lookup: it was not skipped and reading the
\* coordinates did not raise.
ReachesLookup(a) ==
    IF InReports(a)
    THEN ~ReportSkipped(Current(a)) /\ Current(a).lng # Absent
    ELSE ~NeedSkipped(Current(a))

Begin(a) == [a EXCEPT !.seen = Append(@, Item(a))]

\* The station dictionary the loop body builds from rerouted_to_station.
OverrideStation(rerouted) ==
    [name |-> rerouted.name, lat |-> rerouted.lat, lon |-> rerouted.lon,
     type |-> rerouted.type]

\* The loop body from determine_station_type to the call of save_mission
\* (save_need_mission), for an item whose coordinates were read: category,
\* station, route.
LoopBody(a, response) ==
    LET d == Current(a)
        item_lat == d.lat[1]
        item_lon == IF InReports(a) THEN d.lng[1] ELSE d.lon[1]
        station_type == IF InReports(a) THEN determine_station_type(d)
                        ELSE determine_station_type_for_need(d)
        b == ResolveStation(a)
        station == IF OverrideHasCoordinates(d)
                   THEN OverrideStation(d.rerouted_to_station[1])
                   ELSE get_nearest_station(b.stations_cache, item_lat, item_lon,
                                            station_type)
        route == get_route_with_fallback(<<station.lat[1], station.lon[1]>>,
                                         <<item_lat, item_lon>>, station_type,
                                         station.name, response)
    IN [b EXCEPT !.station_type = Some(station_type), !.station = Some(station),
                 !.route = Some(route),
                 !.osrm_log = Some(get_osrm_route(response).log)]

\* station_info of the loop body.
station_info(a) ==
    [type |-> a.station_type[1], name |-> a.station[1].name,
     lat |-> a.station[1].lat, lon |-> a.station[1].lon]

\* The success log after save_mission: routes[0]['total_distance'] / 1000
\* raises when the distance is not a number.
LogSuccess(a) ==
    IF a.route[1].total_distance = Absent THEN ItemExcept(a, "TypeError") ELSE Continue(a)

-----------------------------------------------------------------------------
(* The steps of run_logistics_agent *)

\* reports = get_critical_reports(db)
Poll(c) ==
    /\ c \in procs
    /\ agent[c].pc = "poll"
    /\ LET found == get_critical_reports(reports)
       IN agent' = [agent EXCEPT ![c] =
              [@ EXCEPT !.reports = found, !.i = 1,
                        !.pc = IF Len(found) >= MIN_CLUSTER_SIZE
                               THEN "report" ELSE "needs_query"]]
    /\ UNCHANGED <<sentinel, osrm, procs, reports, needs, missions, stations, faults, overrides>>

\* One pass of the reports loop up to the call of save_mission.
ReportStep(c) ==
    /\ c \in procs
    /\ agent[c].pc = "report"
    /\ LET a == Begin(agent[c])
       IN \E response \in osrm :
             agent' = [agent EXCEPT ![c] =
                 IF ReportSkipped(Current(a)) THEN Continue(a)
                 ELSE IF Current(a).lng = Absent THEN ItemExcept(a, "KeyError")
                 ELSE [LoopBody(a, response) EXCEPT !.pc = "report_insert"]]
    /\ UNCHANGED <<sentinel, osrm, procs, reports, needs, missions, stations, faults, overrides>>

\* save_mission without its insert_one: the id of a mission that is not
\* stored goes on to the status update.
FlipWithoutMission(c) ==
    /\ c \in procs
    /\ agent[c].pc = "report_insert"
    /\ agent' = [agent EXCEPT ![c] =
           [@ EXCEPT !.mission_id = Some(Len(missions) + 1), !.pc = "report_update"]]
    /\ UNCHANGED <<sentinel, osrm, procs, reports, needs, missions, stations, faults, overrides>>

\* save_mission: missions_collection.insert_one(mission)
InsertMission(c) ==
    /\ c \in procs
    /\ agent[c].pc = "report_insert"
    /\ missions' = Append(missions,
           [report_ids |-> <<Current(agent[c])._id>>, need_ids |-> Absent,
            routes |-> <<agent[c].route[1]>>, station |-> station_info(agent[c])])
    /\ agent' = [agent EXCEPT ![c] =
           [@ EXCEPT !.mission_id = Some(Len(missions) + 1), !.pc = "report_update"]]
    /\ UNCHANGED <<sentinel, osrm, procs, reports, needs, stations, faults, overrides>>

\* save_mission: reports_collection.update_many({'_id': {'$in': report_ids}}, ...)
UpdateReports(c) ==
    /\ c \in procs
    /\ agent[c].pc = "report_update"
    /\ reports' = [reports EXCEPT ![Current(agent[c])._id] =
           [@ EXCEPT !.dispatch_status = Some("Assigned"),
                     !.mission_id = agent[c].mission_id]]
    /\ agent' = [agent EXCEPT ![c] = LogSuccess(@)]
    /\ UNCHANGED <<sentinel, osrm, procs, needs, missions, stations, faults, overrides>>

\* verified_needs = get_verified_needs(db)
NeedsQuery(c) ==
    /\ c \in procs
    /\ agent[c].pc = "needs_query"
    /\ LET found == get_verified_needs(needs)
       IN agent' = [agent EXCEPT ![c] =
              [@ EXCEPT !.verified_needs = found, !.i = 1,
                        !.pc = IF Len(found) >= MIN_CLUSTER_SIZE
                               THEN "need" ELSE "sleep"]]
    /\ UNCHANGED <<sentinel, osrm, procs, reports, needs, missions, stations, faults, overrides>>

\* One pass of the needs loop up to the call of save_need_mission.
NeedStep(c) ==
    /\ c \in procs
    /\ agent[c].pc = "need"
    /\ LET a == Begin(agent[c])
       IN \E response \in osrm :
             agent' = [agent EXCEPT ![c] =
                 IF NeedSkipped(Current(a)) THEN Continue(a)
                 ELSE [LoopBody(a, response) EXCEPT !.pc = "need_insert"]]
    /\ UNCHANGED <<sentinel, osrm, procs, reports, needs, missions, stations, faults, overrides>>

\* save_need_mission: missions_collection.insert_one(mission)
InsertNeedMission(c) ==
    /\ c \in procs
    /\ agent[c].pc = "need_insert"
    /\ missions' = Append(missions,
           [report_ids |-> Absent, need_ids |-> <<Current(agent[c])._id>>,
            routes |-> <<agent[c].route[1]>>, station |-> station_info(agent[c])])
    /\ agent' = [agent EXCEPT ![c] =
           [@ EXCEPT !.mission_id = Some(Len(missions) + 1), !.pc = "need_update"]]
    /\ UNCHANGED <<sentinel, osrm, procs, reports, needs, stations, faults, overrides>>

\* save_need_mission: needs_collection.update_many({'_id': {'$in': need_ids}}, ...)
UpdateNeeds(c) ==
    /\ c \in procs
    /\ agent[c].pc = "need_update"
    /\ needs' = [needs EXCEPT ![Current(agent[c])._id] =
           [@ EXCEPT !.dispatch_status = Some("Assigned"),
                     !.status = "InProgress",
                     !.mission_id = agent[c].mission_id]]
    /\ agent' = [agent EXCEPT ![c] = LogSuccess(@)]
    /\ UNCHANGED <<sentinel, osrm, procs, reports, missions, stations, faults, overrides>>

\* time.sleep(POLL_INTERVAL_SECONDS), and the loop starts over.  The log of
\* the cycle and its dead local variables are dropped here.
Sleep(c) ==
    /\ c \in procs
    /\ agent[c].pc = "sleep"
    /\ agent' = [agent EXCEPT ![c] =
           [@ EXCEPT !.pc = "poll", !.reports = <<>>, !.verified_needs = <<>>,
                     !.seen = <<>>, !.errors = {}, !.loop_error = Absent]]
    /\ UNCHANGED <<sentinel, osrm, procs, reports, needs, missions, stations, faults, overrides>>

\* STATIONS_CACHE_TTL seconds have passed since the cache was filled.  The
\* clock is read only by get_registered_stations, so the step is taken where
\* a loop body is about to begin.
TtlElapses(c) ==
    /\ c \in procs
    /\ agent[c].pc \in {"report", "need"}
    /\ agent[c].cache_fresh
    /\ agent' = [agent EXCEPT ![c] = [@ EXCEPT !.cache_fresh = FALSE]]
    /\ UNCHANGED <<sentinel, osrm, procs, reports, needs, missions, stations, faults, overrides>>

-----------------------------------------------------------------------------
(* Failing store operations *)

\* get_critical_reports raises: the handler of the while loop catches it.
PollFails(c) ==
    /\ c \in procs
    /\ agent[c].pc = "poll"
    /\ faults < MaxFaults
    /\ faults' = faults + 1
    /\ agent' = [agent EXCEPT ![c] = LoopExcept(@, "get_critical_reports")]
    /\ UNCHANGED <<sentinel, osrm, procs, reports, needs, missions, stations, overrides>>

\* get_verified_needs raises: the handler of the while loop catches it.
NeedsQueryFails(c) ==
    /\ c \in procs
    /\ agent[c].pc = "needs_query"
    /\ faults < MaxFaults
    /\ faults' = faults + 1
    /\ agent' = [agent EXCEPT ![c] = LoopExcept(@, "get_verified_needs")]
    /\ UNCHANGED <<sentinel, osrm, procs, reports, needs, missions, stations, overrides>>

\* The registry query of get_registered_stations raises inside the body of
\* an item.
RefreshFails(c) ==
    /\ c \in procs
    /\ agent[c].pc \in {"report", "need"}
    /\ faults < MaxFaults
    /\ LET a == Begin(agent[c])
       IN /\ ReachesLookup(a)
          /\ ~OverrideHasCoordinates(Current(a))
          /\ ~CacheValid(a)
          /\ agent' = [agent EXCEPT ![c] = ItemExcept(a, "get_registered_stations")]
    /\ faults' = faults + 1
    /\ UNCHANGED <<sentinel, osrm, procs, reports, needs, missions, stations, overrides>>

\* insert_one raises in save_mission or save_need_mission.
InsertFails(c) ==
    /\ c \in procs
    /\ agent[c].pc \in {"report_insert", "need_insert"}
    /\ faults < MaxFaults
    /\ faults' = faults + 1
    /\ agent' = [agent EXCEPT ![c] = ItemExcept(@, "insert_one")]
    /\ UNCHANGED <<sentinel, osrm, procs, reports, needs, missions, stations, overrides>>

\* update_many raises in save_mission or save_need_mission: the mission is
\* already inserted.
UpdateFails(c) ==
    /\ c \in procs
    /\ agent[c].pc \in {"report_update", "need_update"}
    /\ faults < MaxFaults
    /\ faults' = faults + 1
    /\ agent' = [agent EXCEPT ![c] = ItemExcept(@, "update_many")]
    /\ UNCHANGED <<sentinel, osrm, procs, reports, needs, missions, stations, overrides>>

\* The process of a coordinator is terminated, wherever it is.
Crash(c) ==
    /\ c \in procs
    /\ procs' = procs \ {c}
    /\ UNCHANGED <<sentinel, osrm, reports, needs, missions, stations, agent, faults, overrides>>

-----------------------------------------------------------------------------
(* The human re-route of a dispatched item *)

Reroute(d, s) ==
    [d EXCEPT !.rerouted_to_station = Some(s), !.dispatch_status = Some("Pending")]

OverrideReport(r) ==
    /\ overrides < MaxOverrides
    /\ reports[r].dispatch_status = Some("Assigned")
    /\ \E s \in OverrideStations :
          /\ reports[r].rerouted_to_station # Some(s)
          /\ reports' = [reports EXCEPT ![r] = Reroute(@, s)]
    /\ overrides' = overrides + 1
    /\ UNCHANGED <<sentinel, osrm, procs, needs, missions, stations, agent, faults>>

OverrideNeed(n) ==
    /\ overrides < MaxOverrides
    /\ needs[n].dispatch_status = Some("Assigned")
    /\ \E s \in OverrideStations :
          /\ needs[n].rerouted_to_station # Some(s)
          /\ needs' = [needs EXCEPT ![n] = Reroute(@, s)]
    /\ overrides' = overrides + 1
    /\ UNCHANGED <<sentinel, osrm, procs, reports, missions, stations, agent, faults>>

-----------------------------------------------------------------------------
(* The administration of the station registry *)

RegistryPositions == 1..3

\* An active station of the registry is set inactive.
Deactivate(k) ==
    /\ k \in DOMAIN stations
    /\ IsActive(stations[k])
    /\ stations' = [stations EXCEPT ![k] = [@ EXCEPT !.status = "inactive"]]
    /\ UNCHANGED <<sentinel, osrm, procs, reports, needs, missions, agent, faults, overrides>>

-----------------------------------------------------------------------------
(* Specifications *)

\* No coordinator has dispatched anything yet; each has made the startup
\* call of get_registered_stations.  No sentinel runs.
InitCoordinators ==
    /\ missions = <<>>
    /\ agent = [c \in Coordinators |-> AgentAtLoopEntry(stations)]
    /\ faults = 0
    /\ overrides = 0
    /\ sentinel = <<>>

NoReportText == ReportText(<<>>, <<>>, <<>>)

NoNeedText == NeedText(<<>>, <<>>, <<>>)

InitStore ==
    /\ \E f \in [ReportIds -> ReportDocs] :
          reports = [r \in ReportIds |-> NewReport(r, f[r], NoReportText)]
    /\ \E g \in [NeedIds -> NeedDocs] :
          needs = [n \in NeedIds |-> NewNeed(n, g[n], NoNeedText)]
    /\ stations \in Registries
    /\ osrm = {RoadRoute}
    /\ InitCoordinators

\* One coordinator.
Init == procs = {"c1"} /\ InitStore

\* Two coordinators on the same collections.
InitRace == procs = Coordinators /\ InitStore

\* An eligible report, a report that is not eligible, an eligible need.
GoodReport ==
    [status |-> "Analyzed_Full", emergencyStatus |-> Absent, severity |-> Some(5),
     dispatch_status |-> Absent, lat |-> Some(18000), lng |-> Some(73000)]

RejectedReport ==
    [status |-> "Analyzed_Full", emergencyStatus |-> Some("rejected"), severity |-> Some(5),
     dispatch_status |-> Some("Unassigned"), lat |-> Some(18000), lng |-> Some(73000)]

GoodNeed ==
    [status |-> "Verified", emergencyStatus |-> Absent,
     dispatch_status |-> Absent, lat |-> Some(18000), lon |-> Some(73000)]

\* The texts of the reports and needs the classifier is run on.
ReportTexts ==
    { ReportText(text, tag, needs_array) :
        text \in { <<>>, <<"Stampede", " ", "at", " ", "gate">>,
                   <<"people", " ", "injured">>, <<"hello">> },
        tag \in { <<>>, <<"Fire">> },
        needs_array \in { <<>>, << <<"Medical">> >>, << <<"Shelter">>, <<"Water">>, <<"Medical">> >> } }

NeedTexts ==
    { NeedText(<<>>, <<>>, <<>>),
      NeedText(<<"Medical">>, <<"need", " ", "police", " ", "now">>, <<>>),
      NeedText(<<"Water">>, <<"smoke", " ", "and", " ", "crowd">>, <<"injured">>),
      NeedText(<<"Gas">>, <<>>, <<"leak">>),
      NeedText(<<"Gas">>, <<"leak">>, <<>>),
      NeedText(<<"need">>, <<"police">>, <<>>),
      NeedText(<<"Shelter">>, <<"hello">>, <<"Rescue", " ", "team">>),
      NeedText(<<"Shelter">>, <<"hello">>, <<>>) }

\* An item as the human re-route path leaves it, or as the intake made it.
MaybeRerouted(d) ==
    {d} \cup {Reroute(d, s) : s \in OverrideStations \cup OtherOverrideStations}

\* One coordinator; the texts and the overrides of the items vary.
InitClassify ==
    /\ procs = {"c1"}
    /\ \/ /\ \E t \in ReportTexts : \E d \in MaybeRerouted(NewReport(1, GoodReport, t)) :
                reports = [r \in ReportIds |->
                             IF r = 1 THEN d ELSE NewReport(r, RejectedReport, NoReportText)]
          /\ needs = [n \in NeedIds |-> NewNeed(n, GoodNeed, NoNeedText)]
       \/ /\ reports = [r \in ReportIds |->
                          NewReport(r, IF r = 1 THEN GoodReport ELSE RejectedReport,
                                    NoReportText)]
          /\ \E f \in [NeedIds -> NeedTexts] :
                \E g \in [NeedIds -> {Absent} \cup {Some(s) : s \in OtherOverrideStations}] :
                   needs = [n \in NeedIds |->
                              IF g[n] = Absent THEN NewNeed(n, GoodNeed, f[n])
                              ELSE Reroute(NewNeed(n, GoodNeed, f[n]), g[n][1])]
    /\ stations \in Registries
    /\ osrm = {RoadRoute}
    /\ InitCoordinators

\* The registries the directory is run on, in registry order.
DirectoryRegistries ==
    { <<>>,
      <<Station(Some("fire"), "FS-East", Some(18000), Some(74000), "active"),
        Station(Some("fire"), "FS-West", Some(18000), Some(72000), "active")>>,
      <<Station(Some("fire"), "FS-West", Some(18000), Some(72000), "active"),
        Station(Some("fire"), "FS-East", Some(18000), Some(74000), "active")>>,
      <<Station(Some("fire"), "FS-North", Some(19000), Some(73000), "active"),
        Station(Some("fire"), "FS-None", Absent, Absent, "active"),
        Station(Some("fire"), "FS-East", Some(18000), Some(74000), "active")>>,
      <<Station(Some("fire"), "FS-East", Some(18000), Some(74000), "inactive"),
        Station(Some("rescue"), "RS-North", Some(19000), Some(73000), "active")>>,
      <<Station(Some("rescue"), "RS-None", Absent, Absent, "active")>>,
      <<Station(Some("fire"), "FS-None", Absent, Absent, "active"),
        Station(Some("hospital"), "H-West", Some(18000), Some(72000), "active")>>,
      <<Station(Some("police"), "PS-North", Some(19000), Some(73000), "active"),
        Station(Some("hospital"), "H-West", Some(18000), Some(72000), "active")>>,
      <<Station(Some("fire"), "FS-None", Absent, Absent, "active"),
        Station(Some("rescue"), "RS-North", Some(19000), Some(73000), "active")>>,
      <<Station(Absent, "Depot-East", Some(18000), Some(74000), "active")>> }

DirectoryTexts ==
    { NoReportText, ReportText(<<"Fire">>, <<>>, <<>>), ReportText(<<"riot">>, <<>>, <<>>) }

\* One coordinator; the registry and the category of the first report vary.
InitDirectory ==
    /\ procs = {"c1"}
    /\ \E t \in DirectoryTexts :
          reports = [r \in ReportIds |->
                       IF r = 1 THEN NewReport(r, GoodReport, t)
                       ELSE NewReport(r, RejectedReport, NoReportText)]
    /\ needs = [n \in NeedIds |-> NewNeed(n, GoodNeed, NoNeedText)]
    /\ stations \in DirectoryRegistries
    /\ osrm = {RoadRoute}
    /\ InitCoordinators

\* One coordinator; the response of the routing service varies.
InitRoute ==
    /\ procs = {"c1"}
    /\ \E d \in {GoodReport, RejectedReport} :
          reports = [r \in ReportIds |->
                       NewReport(r, IF r = 1 THEN GoodReport ELSE d, NoReportText)]
    /\ needs = [n \in NeedIds |-> NewNeed(n, GoodNeed, NoNeedText)]
    /\ stations \in Registries
    /\ \E response \in OsrmResponses : osrm = {response}
    /\ InitCoordinators

\* One coordinator; the first report and the need vary, the second report
\* is not eligible.
InitLive ==
    /\ procs = {"c1"}
    /\ \E d \in ReportDocs :
          reports = [r \in ReportIds |->
                       IF r = 1 THEN NewReport(r, d, NoReportText)
                       ELSE NewReport(r, RejectedReport, NoReportText)]
    /\ \E g \in [NeedIds -> NeedDocs] :
          needs = [n \in NeedIds |-> NewNeed(n, g[n], NoNeedText)]
    /\ stations \in Registries
    /\ osrm = {RoadRoute}
    /\ InitCoordinators

\* Two coordinators and an empty registry; an eligible report, a report
\* that is not eligible and an eligible need.
InitCrash ==
    /\ procs = Coordinators
    /\ reports = [r \in ReportIds |->
                    NewReport(r, IF r = 1 THEN GoodReport ELSE RejectedReport, NoReportText)]
    /\ needs = [n \in NeedIds |-> NewNeed(n, GoodNeed, NoNeedText)]
    /\ stations = <<>>
    /\ osrm = {RoadRoute}
    /\ InitCoordinators

Step(c) ==
    \/ Poll(c) \/ ReportStep(c) \/ InsertMission(c) \/ UpdateReports(c)
    \/ NeedsQuery(c) \/ NeedStep(c) \/ InsertNeedMission(c) \/ UpdateNeeds(c)
    \/ Sleep(c)

Fault(c) ==
    \/ PollFails(c) \/ NeedsQueryFails(c) \/ RefreshFails(c)
    \/ InsertFails(c) \/ UpdateFails(c)

Override == (\E r \in ReportIds : OverrideReport(r)) \/ (\E n \in NeedIds : OverrideNeed(n))

Next ==
    \/ \E c \in Coordinators : Step(c) \/ Fault(c) \/ TtlElapses(c)
    \/ Override

NextRace == \E c \in Coordinators : Step(c) \/ TtlElapses(c)

Spec == Init /\ [][Next]_vars

SpecRace == InitRace /\ [][NextRace]_vars

SpecClassify == InitClassify /\ [][Next]_vars

SpecDirectory == InitDirectory /\ [][Next]_vars

SpecRoute == InitRoute /\ [][Next]_vars

\* Two coordinators, each of which may be terminated at any point, with
\* store failures.
NextCrash == \E c \in Coordinators : Step(c) \/ Fault(c) \/ Crash(c)

SpecCrash == InitCrash /\ [][NextCrash]_vars

\* The registry changes while the coordinator runs; no store operation
\* fails.
NextRegistry ==
    \/ \E c \in Coordinators : Step(c) \/ TtlElapses(c)
    \/ \E k \in RegistryPositions : Deactivate(k)

SpecRegistry == InitDirectory /\ [][NextRegistry]_vars

\* One coordinator whose process keeps running: its next statement is
\* eventually executed.  Store operations fail at most MaxFaults times.
SpecLive == InitLive /\ [][Next]_vars /\ WF_vars(Step("c1"))

-----------------------------------------------------------------------------
(* The sentinel of backend/agents/sentinel_agent.py *)

\* The sentinel works on the same 'reports' collection; of a document it
\* reads and writes status, imageUrl, sentinelData and errorMessage only, so
\* the documents of the sentinel's runs carry these fields.  One step of a
\* sentinel is one store operation or the process-local code between two of
\* them.  Probabilities and confidences are in percent.

Sentinels == {"s1", "s2"}

VisualDoc(status, imageUrl) ==
    [status |-> status, imageUrl |-> imageUrl, sentinelData |-> Absent,
     errorMessage |-> Absent]

\* What the host of an image URL answers to requests.get, and for an image
\* what model.predict gives on it.
Served(url) ==
    CASE url = "fire.jpg" -> [kind |-> "image", intact |-> TRUE, predictions |-> <<90>>]
      [] url = "street.jpg" -> [kind |-> "image", intact |-> TRUE, predictions |-> <<20>>]
      [] url = "flood.jpg" -> [kind |-> "image", intact |-> TRUE, predictions |-> <<30, 70>>]
      [] url = "rubble.jpg" -> [kind |-> "image", intact |-> TRUE, predictions |-> <<10, 20, 70>>]
      [] url = "cut.jpg" -> [kind |-> "image", intact |-> FALSE, predictions |-> <<>>]
      [] url = "notes.txt" -> [kind |-> "text", intact |-> TRUE, predictions |-> <<>>]
      [] url = "" -> [kind |-> "MissingSchema", intact |-> TRUE, predictions |-> <<>>]
      [] OTHER -> [kind |-> "HTTPError", intact |-> TRUE, predictions |-> <<>>]

\* The subclasses of requests.exceptions.RequestException.
RequestExceptions == {"MissingSchema", "HTTPError"}

Returned(value) == [raised |-> Absent, value |-> Some(value)]

Raises(kind) == [raised |-> Some(kind), value |-> Absent]

\* requests.get, raise_for_status, Image.open
download_image(image_url) ==
    LET response == Served(image_url)
    IN IF response.kind \in RequestExceptions THEN Raises(response.kind)
       ELSE IF response.kind # "image" THEN Raises("UnidentifiedImageError")
       ELSE Returned(response)

\* image.resize reads the pixel data and raises on a truncated file.
preprocess_image(image) ==
    IF image.intact THEN Returned(image.predictions) ELSE Raises("OSError")

CLASS_NAMES == <<"Non-Disaster", "Disaster">>

\* np.argmax(predictions[0]): the first index (from 0) of the largest value.
argmax(predictions) ==
    Least({k \in 1..Len(predictions) :
              \A j \in 1..Len(predictions) : predictions[j] <= predictions[k]}) - 1

\* classify_image on the output of model.predict.
classify_image(predictions) ==
    IF Len(predictions) = 1
    THEN IF predictions[1] >= 50
         THEN [tag |-> "Disaster", confidence |-> predictions[1]]
         ELSE [tag |-> "Non-Disaster", confidence |-> 100 - predictions[1]]
    ELSE LET class_index == argmax(predictions)
         IN [tag |-> IF class_index < Len(CLASS_NAMES) THEN CLASS_NAMES[class_index + 1]
                     ELSE "Class_" \o ToString(class_index),
             confidence |-> predictions[class_index + 1]]

\* The try block of process_report up to its update_one: the classification,
\* or what was raised.
Classification(image_url) ==
    LET image == download_image(image_url)
        image_array == preprocess_image(image.value[1])
    IN IF image.raised # Absent THEN image
       ELSE IF image_array.raised # Absent THEN image_array
       ELSE Returned(classify_image(image_array.value[1]))

\* The errorMessage of the two except clauses of process_report.
ErrorMessage(kind) ==
    IF kind \in RequestExceptions THEN <<"Image download failed: ", kind>> ELSE <<kind>>

\* The filter of find_and_lock_pending_report on every status.
UnfinishedWithImage(d) ==
    d.status \in {"Pending", "Processing_Visual"} /\ d.imageUrl # Absent

\* The filter of find_and_lock_pending_report: status Pending and an
\* imageUrl that exists and is not null.
PendingWithImage(d) == d.status = "Pending" /\ d.imageUrl # Absent

\* A sentinel process at the entry of the while loop of main.  'locked' is
\* the history of the reports the process has locked, 'cycle_locked' the
\* part of it that belongs to the pass of the loop under way.
SentinelAtLoopEntry(run_once, max_cycles) ==
    [pc |-> "poll", report |-> Absent, result |-> Absent, error |-> Absent,
     loop_error |-> Absent, cycle_count |-> 0, locked |-> <<>>,
     cycle_locked |-> <<>>,
     RUN_ONCE |-> run_once, MAX_CYCLES |-> max_cycles]

\* `except Exception` of the while loop of main: print; the sleep follows.
MainExcept(w, op) == [w EXCEPT !.pc = "sleep", !.loop_error = Some(op)]

\* find_and_lock_pending_report finds a report: find_one_and_update sets its
\* status in the same store operation; process_report begins.
Lock(s) ==
    /\ s \in DOMAIN sentinel
    /\ sentinel[s].pc = "poll"
    /\ \E r \in DOMAIN reports :
          /\ PendingWithImage(reports[r])
          /\ reports' = [reports EXCEPT ![r] = [@ EXCEPT !.status = "Processing_Visual"]]
          /\ sentinel' = [sentinel EXCEPT ![s] =
                 [@ EXCEPT !.pc = "analyze", !.report = Some(r),
                           !.locked = Append(@, r),
                           !.cycle_locked = Append(@, r)]]
    /\ UNCHANGED <<osrm, procs, needs, missions, stations, agent, faults, overrides>>

\* find_and_lock_pending_report finds nothing.
NothingPending(s) ==
    /\ s \in DOMAIN sentinel
    /\ sentinel[s].pc = "poll"
    /\ \A r \in DOMAIN reports : ~PendingWithImage(reports[r])
    /\ sentinel' = [sentinel EXCEPT ![s] = [@ EXCEPT !.pc = "sleep"]]
    /\ UNCHANGED <<osrm, procs, reports, needs, missions, stations, agent, faults, overrides>>

\* process_report: download, preprocess, classify.
Analyze(s) ==
    /\ s \in DOMAIN sentinel
    /\ sentinel[s].pc = "analyze"
    /\ LET outcome == Classification(reports[sentinel[s].report[1]].imageUrl[1])
       IN sentinel' = [sentinel EXCEPT ![s] =
              IF outcome.raised = Absent
              THEN [@ EXCEPT !.pc = "save", !.result = outcome.value]
              ELSE [@ EXCEPT !.pc = "mark_error",
                             !.error = Some(ErrorMessage(outcome.raised[1]))]]
    /\ UNCHANGED <<osrm, procs, reports, needs, missions, stations, agent, faults, overrides>>

\* process_report: update_one with sentinelData and status Analyzed_Visual.
SaveResult(s) ==
    /\ s \in DOMAIN sentinel
    /\ sentinel[s].pc = "save"
    /\ reports' = [reports EXCEPT ![sentinel[s].report[1]] =
           [@ EXCEPT !.sentinelData = sentinel[s].result,
                     !.status = "Analyzed_Visual"]]
    /\ sentinel' = [sentinel EXCEPT ![s] = [@ EXCEPT !.pc = "sleep"]]
    /\ UNCHANGED <<osrm, procs, needs, missions, stations, agent, faults, overrides>>

\* process_report: update_one of an except clause, status Error and the
\* errorMessage.
MarkError(s) ==
    /\ s \in DOMAIN sentinel
    /\ sentinel[s].pc = "mark_error"
    /\ reports' = [reports EXCEPT ![sentinel[s].report[1]] =
           [@ EXCEPT !.status = "Error", !.errorMessage = sentinel[s].error]]
    /\ sentinel' = [sentinel EXCEPT ![s] = [@ EXCEPT !.pc = "sleep"]]
    /\ UNCHANGED <<osrm, procs, needs, missions, stations, agent, faults, overrides>>

\* An exit test that lets the loop run one pass beyond MAX_CYCLES.
CycleLimitPassed(w, cycle_count) ==
    \/ w.RUN_ONCE
    \/ (w.MAX_CYCLES # 0 /\ cycle_count > w.MAX_CYCLES)

\* `RUN_ONCE or (MAX_CYCLES and cycle_count >= MAX_CYCLES)`: the test that
\* ends the while loop of main; MAX_CYCLES is true when it is not 0.
CycleLimitReached(w, cycle_count) ==
    \/ w.RUN_ONCE
    \/ (w.MAX_CYCLES # 0 /\ cycle_count >= w.MAX_CYCLES)

\* time.sleep(POLL_INTERVAL), the cycle is counted and the limit tested.
\* cycle_count is only compared with MAX_CYCLES: it is counted up to
\* MaxCycleCount and stays there.
SentinelSleep(s) ==
    /\ s \in DOMAIN sentinel
    /\ sentinel[s].pc = "sleep"
    /\ LET cycle_count == IF sentinel[s].cycle_count < MaxCycleCount
                          THEN sentinel[s].cycle_count + 1 ELSE sentinel[s].cycle_count
           w == sentinel[s]
       IN sentinel' = [sentinel EXCEPT ![s] =
              [@ EXCEPT !.cycle_count = cycle_count,
                        !.report = Absent, !.result = Absent, !.error = Absent,
                        !.loop_error = Absent, !.cycle_locked = <<>>,
                        !.pc = IF CycleLimitReached(w, cycle_count)
                               THEN "exited" ELSE "poll"]]
    /\ UNCHANGED <<osrm, procs, reports, needs, missions, stations, agent, faults, overrides>>

\* find_one_and_update raises: nothing is locked.
LockFails(s) ==
    /\ s \in DOMAIN sentinel
    /\ sentinel[s].pc = "poll"
    /\ faults < MaxFaults
    /\ faults' = faults + 1
    /\ sentinel' = [sentinel EXCEPT ![s] = MainExcept(@, "find_one_and_update")]
    /\ UNCHANGED <<osrm, procs, reports, needs, missions, stations, agent, overrides>>

\* The update_one of the result raises inside the try block: `except
\* Exception` of process_report takes it.
SaveResultFails(s) ==
    /\ s \in DOMAIN sentinel
    /\ sentinel[s].pc = "save"
    /\ faults < MaxFaults
    /\ faults' = faults + 1
    /\ sentinel' = [sentinel EXCEPT ![s] =
           [@ EXCEPT !.pc = "mark_error", !.error = Some(ErrorMessage("PyMongoError"))]]
    /\ UNCHANGED <<osrm, procs, reports, needs, missions, stations, agent, overrides>>

\* The update_one of an except clause raises: the exception leaves
\* process_report and the handler of the while loop takes it.
MarkErrorFails(s) ==
    /\ s \in DOMAIN sentinel
    /\ sentinel[s].pc = "mark_error"
    /\ faults < MaxFaults
    /\ faults' = faults + 1
    /\ sentinel' = [sentinel EXCEPT ![s] = MainExcept(@, "update_one")]
    /\ UNCHANGED <<osrm, procs, reports, needs, missions, stations, agent, overrides>>

\* The process is terminated while it works on a report it has locked.  At
\* most MaxStops processes are terminated.
Stop(s) ==
    /\ s \in DOMAIN sentinel
    /\ sentinel[s].pc \in {"analyze", "save", "mark_error"}
    /\ Cardinality({t \in DOMAIN sentinel : sentinel[t].pc = "stopped"}) < MaxStops
    /\ sentinel' = [sentinel EXCEPT ![s] = [@ EXCEPT !.pc = "stopped"]]
    /\ UNCHANGED <<osrm, procs, reports, needs, missions, stations, agent, faults, overrides>>

\* The documents of 'reports' the sentinel is run on (without _id).
VisualDocs ==
    {VisualDoc("Pending", Some(url)) :
        url \in {"fire.jpg", "street.jpg", "flood.jpg", "rubble.jpg", "cut.jpg",
                 "notes.txt", "", "gone.jpg"}}
    \cup {VisualDoc("Pending", Absent), VisualDoc("Analyzed_Full", Some("fire.jpg"))}

\* RUN_ONCE and MAX_CYCLES as the environment sets them.
SentinelSettings == {<<FALSE, 0>>, <<TRUE, 0>>, <<FALSE, 2>>, <<TRUE, 2>>}

\* No coordinator runs.
NoCoordinator ==
    /\ procs = {}
    /\ needs = <<>>
    /\ missions = <<>>
    /\ stations = <<>>
    /\ agent = <<>>
    /\ overrides = 0
    /\ osrm = {}

\* One sentinel; the reports and the settings vary.
InitSentinel ==
    /\ reports \in [ReportIds -> VisualDocs]
    /\ \E e \in SentinelSettings :
          sentinel = [s \in {"s1"} |-> SentinelAtLoopEntry(e[1], e[2])]
    /\ faults = 0
    /\ NoCoordinator

\* Two sentinels on the same collection, both running without a limit.
InitSentinelRace ==
    /\ reports \in [ReportIds -> VisualDocs]
    /\ sentinel = [s \in Sentinels |-> SentinelAtLoopEntry(FALSE, 0)]
    /\ faults = 0
    /\ NoCoordinator

SentinelStep(s) ==
    \/ Lock(s) \/ NothingPending(s) \/ Analyze(s) \/ SaveResult(s) \/ MarkError(s)
    \/ SentinelSleep(s)

SentinelFault(s) == LockFails(s) \/ SaveResultFails(s) \/ MarkErrorFails(s)

NextSentinel == \E s \in Sentinels : SentinelStep(s) \/ SentinelFault(s) \/ Stop(s)

SpecSentinel == InitSentinel /\ [][NextSentinel]_vars

SpecSentinelRace == InitSentinelRace /\ [][NextSentinel]_vars

\* Two sentinels whose processes keep running unless they are terminated: the
\* next statement of each is eventually executed.  Store operations fail at
\* most MaxFaults times.
SpecSentinelLive ==
    InitSentinelRace /\ [][NextSentinel]_vars /\ \A s \in Sentinels : WF_vars(SentinelStep(s))

-----------------------------------------------------------------------------
(* Vocabulary of the properties *)

Contains(seq, x) == \E k \in 1..Len(seq) : seq[k] = x

Occurrences(seq, x) == Cardinality({k \in 1..Len(seq) : seq[k] = x})

MissionsOfReport(r) == {k \in 1..Len(missions) : Contains(missions[k].report_ids, r)}

MissionsOfNeed(n) == {k \in 1..Len(missions) : Contains(missions[k].need_ids, n)}

AtMostOneMissionEach ==
    /\ \A r \in ReportIds : Cardinality(MissionsOfReport(r)) <= 1
    /\ \A n \in NeedIds : Cardinality(MissionsOfNeed(n)) <= 1

Ids(docs) == {docs[k]._id : k \in 1..Len(docs)}

SeenReports(a) == {a.seen[k][2] : k \in {j \in 1..Len(a.seen) : a.seen[j][1] = "report"}}

SeenNeeds(a) == {a.seen[k][2] : k \in {j \in 1..Len(a.seen) : a.seen[j][1] = "need"}}

StoreOps == {"get_registered_stations", "insert_one", "update_many"}

-----------------------------------------------------------------------------
(* C1 *)

\* C1: for any interleaving of two coordinators that poll the same reports
\* and needs, no report id and no need id is referenced by two missions.
C1_NoDoubleDispatch == AtMostOneMissionEach

-----------------------------------------------------------------------------
(* C2 *)

\* A cycle that has reached its sleep with nothing raised.
ErrorFreeCycleDone(a) == a.pc = "sleep" /\ a.loop_error = Absent /\ a.errors = {}

\* C2: with one coordinator, at the end of a cycle in which nothing raised,
\* every report and need of the cycle's eligible set that has coordinates (and
\* was not re-routed by a human since it was read) was processed once, is
\* Assigned, and is referenced by exactly one mission.
C2_OneMissionAfterCycle ==
    \A c \in procs :
        ErrorFreeCycleDone(agent[c]) =>
            /\ \A k \in 1..Len(agent[c].reports) :
                  LET d == agent[c].reports[k]
                  IN (/\ d.lat # Absent /\ d.lng # Absent
                      /\ reports[d._id].rerouted_to_station = d.rerouted_to_station)
                     => /\ Occurrences(agent[c].seen, <<"report", d._id>>) = 1
                        /\ reports[d._id].dispatch_status = Some("Assigned")
                        /\ Cardinality(MissionsOfReport(d._id)) = 1
            /\ \A k \in 1..Len(agent[c].verified_needs) :
                  LET d == agent[c].verified_needs[k]
                  IN (/\ d.lat # Absent /\ d.lon # Absent
                      /\ needs[d._id].rerouted_to_station = d.rerouted_to_station)
                     => /\ Occurrences(agent[c].seen, <<"need", d._id>>) = 1
                        /\ needs[d._id].dispatch_status = Some("Assigned")
                        /\ Cardinality(MissionsOfNeed(d._id)) = 1

-----------------------------------------------------------------------------
(* C3 *)

\* C3: a coordinator's write of dispatch_status = Assigned is conditional on
\* the item still being unclaimed, so of two coordinators at most one makes
\* it for a given item.
C3_AssignOnlyUnclaimed ==
    [][\A c \in Coordinators :
          /\ UpdateReports(c) => Unclaimed(reports[Current(agent[c])._id])
          /\ UpdateNeeds(c) => Unclaimed(needs[Current(agent[c])._id])]_vars

-----------------------------------------------------------------------------
(* C4 *)

\* C4: with one coordinator, in every state reached by polling cycles and
\* human overrides alone (no store operation has failed), each report id and
\* each need id is in the id list of at most one mission.
C4_OneMissionUnderOverrides == faults = 0 => AtMostOneMissionEach

-----------------------------------------------------------------------------
(* C5 *)

\* C5: after a mission insert whose status update failed, the retry of the
\* item creates no second mission: with one coordinator and no human
\* override, each id is in at most one mission whatever store operation fails.
C5_IdempotentPersistence == overrides = 0 => AtMostOneMissionEach

-----------------------------------------------------------------------------
(* C7 *)

\* C7: a dispatched report or need that a human override has reset to
\* Pending (rerouted_to_station set) is selected by the next eligibility
\* query.
C7_ReroutedIsSelected ==
    /\ \A r \in ReportIds :
          (reports[r].dispatch_status = Some("Pending")
              /\ reports[r].rerouted_to_station # Absent)
          => reports[r]._id \in Ids(get_critical_reports(reports))
    /\ \A n \in NeedIds :
          (needs[n].dispatch_status = Some("Pending")
              /\ needs[n].rerouted_to_station # Absent)
          => needs[n]._id \in Ids(get_verified_needs(needs))

-----------------------------------------------------------------------------
(* C6 *)

\* The three conditions the claim names.
StatusNotRejectedUnclaimed(d, analyzed) ==
    /\ d.status \in analyzed
    /\ d.emergencyStatus # Some("rejected")
    /\ d.dispatch_status \in {Absent, Some("Unassigned"), Some("Pending")}

-----------------------------------------------------------------------------
(* C8 *)

\* C8: whatever raised while one item was processed, every report the cycle
\* selected has been processed when PART 2 begins, and every need it
\* selected when the cycle reaches its sleep.
C8_FailureStaysInItem ==
    \A c \in procs :
        /\ (agent[c].pc \in {"needs_query", "need", "need_insert", "need_update", "sleep"})
              => Ids(agent[c].reports) \subseteq SeenReports(agent[c])
        /\ (agent[c].pc = "sleep" /\ agent[c].loop_error = Absent)
              => Ids(agent[c].verified_needs) \subseteq SeenNeeds(agent[c])

\* The first report of a batch raised, and the second report and a need were
\* dispatched in the same cycle.
C8_Witness ==
    \E c \in procs :
        /\ agent[c].pc = "sleep"
        /\ Len(agent[c].seen) = 3
        /\ \E e \in agent[c].errors : e.item = agent[c].seen[1]
        /\ reports[agent[c].seen[2][2]].dispatch_status = Some("Assigned")
        /\ needs[agent[c].seen[3][2]].dispatch_status = Some("Assigned")

-----------------------------------------------------------------------------
(* C9 *)

\* C9 as claimed: once a store operation has failed in a cycle (a query, the
\* registry refresh, the mission insert or the status update), the cycle is
\* over: no further item is processed in it.
C9_AnyStoreFailureAbortsCycle ==
    \A c \in procs :
        /\ agent[c].loop_error # Absent => agent[c].pc = "sleep"
        /\ \A e \in agent[c].errors :
              e.op \in StoreOps => agent[c].seen[Len(agent[c].seen)] = e.item

\* C9 as amended: a failed eligibility query ends the cycle (after a failed
\* reports query no item at all is processed, after a failed needs query no
\* need) and the sleep follows; a failed registry refresh, mission insert or
\* status update ends only the processing of its item: the other items the
\* cycle selected are still processed, and the item, left as it was, is
\* selected again by the next query.
C9_OnlyQueryFailureAbortsCycle ==
    \A c \in procs :
        /\ agent[c].loop_error # Absent => agent[c].pc = "sleep"
        /\ agent[c].loop_error = Some("get_critical_reports") => agent[c].seen = <<>>
        /\ agent[c].loop_error = Some("get_verified_needs") => SeenNeeds(agent[c]) = {}
        /\ (agent[c].pc = "sleep" /\ agent[c].loop_error = Absent)
              => /\ Ids(agent[c].reports) \subseteq SeenReports(agent[c])
                 /\ Ids(agent[c].verified_needs) \subseteq SeenNeeds(agent[c])
        /\ \A e \in agent[c].errors :
              e.op \in StoreOps =>
                 IF e.item[1] = "report"
                 THEN e.item[2] \in Ids(get_critical_reports(reports))
                 ELSE e.item[2] \in Ids(get_verified_needs(needs))

\* A store write failed for the first item of a cycle, and the cycle went on
\* to dispatch another item.
C9_Witness ==
    \E c \in procs :
        /\ Len(agent[c].seen) >= 2
        /\ \E e \in agent[c].errors :
              e.op \in {"insert_one", "update_many"} /\ e.item = agent[c].seen[1]
        /\ \E k \in 2..Len(agent[c].seen) :
              IF agent[c].seen[k][1] = "report"
              THEN reports[agent[c].seen[k][2]].dispatch_status = Some("Assigned")
              ELSE needs[agent[c].seen[k][2]].dispatch_status = Some("Assigned")

-----------------------------------------------------------------------------
(* C10 *)

ReportDispatched(r) ==
    /\ reports[r].dispatch_status = Some("Assigned")
    /\ reports[r].mission_id # Absent
    /\ reports[r].mission_id[1] \in MissionsOfReport(r)

NeedDispatched(n) ==
    /\ needs[n].dispatch_status = Some("Assigned")
    /\ needs[n].mission_id # Absent
    /\ needs[n].mission_id[1] \in MissionsOfNeed(n)

\* C10: no failure ends the polling loop, and once store operations succeed
\* every eligible report and need that has coordinates is eventually Assigned
\* with a mission that references it.
C10_EventuallyDispatched ==
    /\ []<>(agent["c1"].pc = "poll")
    /\ \A r \in ReportIds :
          (CriticalReportQuery(reports[r])
              /\ reports[r].lat # Absent /\ reports[r].lng # Absent)
          ~> ReportDispatched(r)
    /\ \A n \in NeedIds :
          (VerifiedNeedQuery(needs[n])
              /\ needs[n].lat # Absent /\ needs[n].lon # Absent)
          ~> NeedDispatched(n)

-----------------------------------------------------------------------------
(* C11 *)

\* The pass over the item has ended in the handler of its try.
ItemRaised(a, item) == \E e \in a.errors : e.item = item

\* The pass over the item has ended (it is not the item being processed).
PassEnded(a, item) ==
    /\ Contains(a.seen, item)
    /\ ~((InReports(a) \/ InNeeds(a)) /\ Item(a) = item)

\* C11: with one coordinator, an item whose processing raised, or that was
\* skipped for missing coordinates, has the status and the dispatch_status
\* it had when the cycle read it, and is selected by the eligibility query.
C11_FailedItemUnchanged ==
    \A c \in procs :
        /\ \A k \in 1..Len(agent[c].reports) :
              LET d == agent[c].reports[k]
                  item == <<"report", d._id>>
              IN (ItemRaised(agent[c], item)
                    \/ (PassEnded(agent[c], item) /\ ReportSkipped(d)))
                 => /\ reports[d._id].status = d.status
                    /\ reports[d._id].dispatch_status = d.dispatch_status
                    /\ CriticalReportQuery(reports[d._id])
        /\ \A k \in 1..Len(agent[c].verified_needs) :
              LET d == agent[c].verified_needs[k]
                  item == <<"need", d._id>>
              IN (ItemRaised(agent[c], item)
                    \/ (PassEnded(agent[c], item) /\ NeedSkipped(d)))
                 => /\ needs[d._id].status = d.status
                    /\ needs[d._id].dispatch_status = d.dispatch_status
                    /\ VerifiedNeedQuery(needs[d._id])

-----------------------------------------------------------------------------
(* C12 *)

\* C12: a report that is selected and has no location is eventually marked
\* Error and no longer selected.
C12_MalformedMarkedError ==
    \A r \in ReportIds :
        (CriticalReportQuery(reports[r]) /\ reports[r].lat = Absent)
        ~> (reports[r].status = "Error" /\ ~CriticalReportQuery(reports[r]))

-----------------------------------------------------------------------------
(* C13 *)

\* The coordinates of the item a mission references.
MissionTarget(m) ==
    IF m.report_ids # Absent
    THEN <<reports[m.report_ids[1]].lat[1], reports[m.report_ids[1]].lng[1]>>
    ELSE <<needs[m.need_ids[1]].lat[1], needs[m.need_ids[1]].lon[1]>>

\* The straight line from origin to destination at the assumed speed.
IsStraightLine(route, origin, destination) ==
    /\ route.route = <<origin, destination>>
    /\ route.total_distance =
          Some(haversine(origin[1], origin[2], destination[1], destination[2]))
    /\ route.duration = Some((route.total_distance[1] * 100) \div 1389)
    /\ route.is_road_snapped = FALSE

-----------------------------------------------------------------------------
(* C14 *)

\* C14: the route of every mission has at least two points, whatever the
\* routing service answered.
C14_RouteHasTwoPoints ==
    \A k \in 1..Len(missions) : Len(missions[k].routes[1].route) >= 2

-----------------------------------------------------------------------------
(* C15 *)

Categories == {"police", "hospital", "fire", "rescue"}

\* The category the loop body resolved for the item it is working on.
Resolved(a) == a.station_type # Absent

\* C15: the category resolved for a report or a need, with or without an
\* override, is the value of the classifier on the item and is one of
\* police, hospital, fire, rescue; so are the categories recorded in the
\* missions.
C15_CategoryInFixedSet ==
    /\ \A c \in procs :
          Resolved(agent[c]) =>
             /\ agent[c].station_type[1] \in Categories
             /\ agent[c].station_type[1] =
                   IF InReports(agent[c]) THEN determine_station_type(Current(agent[c]))
                   ELSE determine_station_type_for_need(Current(agent[c]))
    /\ \A k \in 1..Len(missions) :
          /\ missions[k].station.type \in Categories
          /\ missions[k].routes[1].station_type \in Categories

-----------------------------------------------------------------------------
(* C16 *)

\* The sources of a report in priority order: text, tag, then the needs in
\* array order, each in lower case.
ReportSources(d) ==
    <<lower(d.text), lower(d.tag)>> \o [k \in 1..Len(d.needs) |-> lower(d.needs[k])]

\* The first source that contains a keyword decides, by its earliest rule.
DecidedBySourceOrder(sources) ==
    LET hits == {k \in 1..Len(sources) : Matching(sources[k]) # {}}
    IN IF hits = {} THEN "rescue"
       ELSE NEED_TO_STATION_MAP[Least(Matching(sources[Least(hits)]))][2]

Mentions(word, text) == In(<<word>>, lower(text))

-----------------------------------------------------------------------------
(* C17 *)

WithoutOverride(d) == [d EXCEPT !.rerouted_to_station = Absent]

\* C17: an item whose override names a category is resolved to that
\* category whatever its texts are; an item whose override names none is
\* resolved as the same item without override.
C17_OverrideCategoryWins ==
    \A c \in procs :
        Resolved(agent[c]) =>
            LET d == Current(agent[c])
            IN IF d.rerouted_to_station # Absent /\ d.rerouted_to_station[1].type # ""
               THEN agent[c].station_type[1] = d.rerouted_to_station[1].type
               ELSE agent[c].station_type[1] =
                       IF InReports(agent[c])
                       THEN DecidedBySourceOrder(ReportSources(d))
                       ELSE determine_station_type_for_need(WithoutOverride(d))

\* A report re-routed to the fire category whose text mentions stampede has
\* been resolved to fire.
C17_Witness ==
    \E c \in procs :
        /\ Resolved(agent[c]) /\ InReports(agent[c])
        /\ Current(agent[c]).rerouted_to_station # Absent
        /\ Current(agent[c]).rerouted_to_station[1].type = "fire"
        /\ Mentions("stampede", Current(agent[c]).text)
        /\ agent[c].station_type[1] = "fire"

-----------------------------------------------------------------------------
(* C18 *)

\* The loop body has asked the directory for the station of its item.
AskedDirectory(a) == Resolved(a) /\ ~OverrideHasCoordinates(Current(a))

\* The first category of the chain that has stations in the cache, if any.
FirstStocked(cache, chain) ==
    LET hits == {k \in 1..Len(chain) : \E j \in 1..Len(cache) : cache[j].type = chain[k]}
    IN IF hits = {} THEN Absent ELSE Some(chain[Least(hits)])

HasType(cache, type) == \E j \in 1..Len(cache) : cache[j].type = type

IsStationOf(station, cache, type) ==
    \E j \in 1..Len(cache) : cache[j].type = type /\ station = cache[j]

-----------------------------------------------------------------------------
(* C19 *)

\* The distance from the item being processed to a station.
DistanceTo(a, station) ==
    haversine(Current(a).lat[1],
              IF InReports(a) THEN Current(a).lng[1] ELSE Current(a).lon[1],
              station.lat[1], station.lon[1])

\* C19: when a candidate station has coordinates, the lookup returns a
\* candidate with coordinates at minimal distance from the item, the first
\* in registry order among those at that distance.
C19_NearestFirstInRegistryOrder ==
    \A c \in procs :
        AskedDirectory(agent[c]) =>
            LET pool == Candidates(agent[c].stations_cache, agent[c].station_type[1])
                usable == {k \in 1..Len(pool) : ~NoCoordinates(pool[k])}
            IN usable # {} =>
                  \E k \in usable :
                      /\ agent[c].station[1] = pool[k]
                      /\ \A j \in usable :
                            /\ DistanceTo(agent[c], pool[k]) <= DistanceTo(agent[c], pool[j])
                            /\ DistanceTo(agent[c], pool[j]) = DistanceTo(agent[c], pool[k])
                                  => k <= j

\* Two fire stations are at the same distance from the report, and the
\* lookup returned the first of the registry, FS-West.
C19_Witness ==
    \E c \in procs :
        /\ AskedDirectory(agent[c])
        /\ Len(agent[c].stations_cache) = 2
        /\ agent[c].stations_cache[1].name = "FS-West"
        /\ agent[c].stations_cache[2].name = "FS-East"
        /\ agent[c].station_type[1] = "fire"
        /\ DistanceTo(agent[c], agent[c].stations_cache[1])
              = DistanceTo(agent[c], agent[c].stations_cache[2])
        /\ agent[c].station[1].name = "FS-West"

-----------------------------------------------------------------------------
(* C20 *)

-----------------------------------------------------------------------------
(* C21 *)

\* The override of the item names a station and gives both its coordinates.
OverrideCarriesCoordinates(d) ==
    /\ d.rerouted_to_station # Absent
    /\ d.rerouted_to_station[1].lat # Absent
    /\ d.rerouted_to_station[1].lon # Absent

\* The coordinates of the item being processed.
ItemLat(a) == Current(a).lat[1]

ItemLon(a) == IF InReports(a) THEN Current(a).lng[1] ELSE Current(a).lon[1]

\* C21: when the override of an item carries coordinates, the dispatching
\* station is the override station, name and coordinates, and the directory
\* is not read for the item; in every other case the station is the one
\* get_nearest_station gives for the resolved category.
C21_OverrideStationBypassesDirectory ==
    \A c \in procs :
        Resolved(agent[c]) =>
            LET d == Current(agent[c])
            IN IF OverrideCarriesCoordinates(d)
               THEN /\ agent[c].station[1].name = d.rerouted_to_station[1].name
                    /\ agent[c].station[1].lat = d.rerouted_to_station[1].lat
                    /\ agent[c].station[1].lon = d.rerouted_to_station[1].lon
                    /\ agent[c].lookup = Absent
               ELSE /\ agent[c].lookup # Absent
                    /\ agent[c].station[1] =
                          get_nearest_station(agent[c].stations_cache, ItemLat(agent[c]),
                                              ItemLon(agent[c]), agent[c].station_type[1])

-----------------------------------------------------------------------------
(* C22 *)

\* The registered stations a mission's station record names.
DispatchedFrom(m) ==
    {InternalStation(stations[j]) : j \in {i \in 1..Len(stations) :
        /\ stations[i].name = m.station.name
        /\ stations[i].lat = m.station.lat
        /\ stations[i].lng = m.station.lon}}

\* C22: in every mission dispatched from a registered station, the category
\* recorded in the route (station_type) and in the station record (type) is
\* the category of that station, also when the directory substituted a
\* station of a fallback category.
C22_RecordedCategoryIsStationCategory ==
    \A k \in 1..Len(missions) :
        \A s \in DispatchedFrom(missions[k]) :
            /\ missions[k].station.type = s.type
            /\ missions[k].routes[1].station_type = s.type

-----------------------------------------------------------------------------
(* C23 *)

\* The sentinels that have locked report r, and how often one has.
LockedBy(r) == {s \in DOMAIN sentinel : Contains(sentinel[s].locked, r)}

\* C23: for any interleaving of two sentinels, a report is locked by at most
\* one of them and at most once, and no two sentinels work on the same
\* report.
C23_LockedByAtMostOne ==
    /\ \A r \in DOMAIN reports :
          /\ Cardinality(LockedBy(r)) <= 1
          /\ \A s \in DOMAIN sentinel : Occurrences(sentinel[s].locked, r) <= 1
    /\ \A s, t \in DOMAIN sentinel :
          (s # t /\ sentinel[s].report # Absent) => sentinel[s].report # sentinel[t].report

\* Two sentinels have polled the same two Pending reports, and each has
\* locked one of them.
C23_Witness ==
    /\ DOMAIN sentinel = Sentinels
    /\ \A s \in Sentinels : Len(sentinel[s].locked) = 1
    /\ sentinel["s1"].locked # sentinel["s2"].locked

-----------------------------------------------------------------------------
(* C24 *)

\* The pass of process_report on the report the sentinel locked has ended,
\* and an except clause had taken it.
PassFailed(w) == w.pc = "sleep" /\ w.report # Absent /\ w.error # Absent

\* C24: when the download or a later step of process_report fails, the
\* report has status Error and the error message when the pass ends, never
\* Analyzed_Visual; a report has status Analyzed_Visual only together with
\* the sentinelData (tag, confidence) of a classification that succeeded.
C24_FailureMarksError ==
    /\ \A s \in DOMAIN sentinel :
          PassFailed(sentinel[s]) =>
              /\ reports[sentinel[s].report[1]].status = "Error"
              /\ reports[sentinel[s].report[1]].errorMessage = sentinel[s].error
    /\ \A r \in DOMAIN reports :
          /\ reports[r].status = "Analyzed_Visual" <=> reports[r].sentinelData # Absent
          /\ reports[r].status = "Analyzed_Visual" =>
                /\ Classification(reports[r].imageUrl[1]).raised = Absent
                /\ reports[r].sentinelData = Classification(reports[r].imageUrl[1]).value

-----------------------------------------------------------------------------
(* C25 *)

\* The sources of a need in the order needType, rawMessage, details, each in
\* lower case.
NeedSources(d) == <<lower(d.needType), lower(d.rawMessage), lower(d.details)>>

\* The sources joined by single spaces.
Joined(sources) == sources[1] \o <<" ">> \o sources[2] \o <<" ">> \o sources[3]

ResolvedNeed(a) == Resolved(a) /\ InNeeds(a) /\ ~OverrideHasType(Current(a))

-----------------------------------------------------------------------------
(* C26 *)

\* The directory returned a station of the registry, not the default depot.
ReturnedRegistered(a) == AskedDirectory(a) /\ a.station[1] # DEFAULT_DEPOT

ActiveIn(registry, station) ==
    \E j \in 1..Len(registry) :
        IsActive(registry[j]) /\ InternalStation(registry[j]) = station

\* C26: a registered station the directory returns was active in the
\* registry when the cache was last refreshed, and that refresh was made at
\* the read or less than TTL before it; so a station that is inactive in the
\* registry when it is returned comes from a cache filled less than TTL ago.
C26_ReturnedStationActiveAtRefresh ==
    \A c \in procs :
        ReturnedRegistered(agent[c]) =>
            /\ ActiveIn(agent[c].refreshed_from, agent[c].station[1])
            /\ agent[c].lookup[1].source = "cache" => ~agent[c].lookup[1].expired
            /\ agent[c].lookup[1].source = "registry" =>
                  /\ agent[c].refreshed_from = agent[c].lookup[1].registry
                  /\ ActiveIn(agent[c].lookup[1].registry, agent[c].station[1])
            /\ ~ActiveIn(agent[c].lookup[1].registry, agent[c].station[1]) =>
                  (agent[c].lookup[1].source = "cache" /\ ~agent[c].lookup[1].expired)

\* A station was set inactive, the TTL elapsed, and the read that followed
\* refreshed the cache, which lost a station, and returned a station that is
\* still active.
C26_Witness ==
    \E c \in procs :
        /\ ReturnedRegistered(agent[c])
        /\ agent[c].lookup[1].source = "registry"
        /\ agent[c].lookup[1].expired
        /\ agent[c].lookup[1].cached > Len(agent[c].stations_cache)
        /\ \E j \in 1..Len(agent[c].lookup[1].registry) :
              ~IsActive(agent[c].lookup[1].registry[j])

-----------------------------------------------------------------------------
(* C27 *)

\* A step of a coordinator, as opposed to a human re-route.
CoordinatorStep == agent' # agent

\* The step changes document `before` of a collection into `after`
\* lawfully: a coordinator writes Assigned, and only to an item that is not
\* Assigned; anything else that moves dispatch_status is a human re-route
\* that sets an Assigned item to Pending.
LawfulDispatchChange(before, after) ==
    after # before =>
        IF CoordinatorStep
        THEN /\ after.dispatch_status = Some("Assigned")
             /\ before.dispatch_status # Some("Assigned")
        ELSE /\ before.dispatch_status = Some("Assigned")
             /\ after.dispatch_status = Some("Pending")
             /\ overrides' = overrides + 1

\* C27: with one coordinator, no step of the coordinator takes an item out
\* of Assigned, Assigned is the only dispatch_status it writes, an Assigned
\* item becomes Pending only by a human re-route, and the coordinator never
\* assigns an item that is Assigned already.
C27_AssignedOnceUntilOverride ==
    [][ /\ \A r \in ReportIds : LawfulDispatchChange(reports[r], reports'[r])
        /\ \A n \in NeedIds : LawfulDispatchChange(needs[n], needs'[n]) ]_vars

\* A report was Assigned, re-routed by a human, and Assigned again.
C27_Witness ==
    \E r \in ReportIds :
        /\ reports[r].dispatch_status = Some("Assigned")
        /\ reports[r].rerouted_to_station # Absent
        /\ Cardinality(MissionsOfReport(r)) = 2

-----------------------------------------------------------------------------
(* C28 *)

\* C28: under any interleaving of two coordinators, with store failures and
\* with coordinators terminated at any point, every report and need that is
\* Assigned has a mission_id that references a stored mission whose id list
\* contains the item.
C28_AssignedHasItsMission ==
    /\ \A r \in ReportIds :
          reports[r].dispatch_status = Some("Assigned") => ReportDispatched(r)
    /\ \A n \in NeedIds :
          needs[n].dispatch_status = Some("Assigned") => NeedDispatched(n)

\* A coordinator was terminated between its insert and its status update,
\* the other one has assigned the report, and a store operation had failed.
C28_Witness ==
    /\ procs # Coordinators
    /\ faults > 0
    /\ \E r \in ReportIds :
          /\ ReportDispatched(r)
          /\ Cardinality(MissionsOfReport(r)) >= 2

-----------------------------------------------------------------------------
(* C29 *)

\* C29: every report a sentinel has locked into Processing_Visual eventually
\* has status Analyzed_Visual or Error, also when a store write fails or the
\* sentinel is terminated after the lock.
C29_LockedEventuallySettled ==
    \A r \in ReportIds :
        (reports[r].status = "Processing_Visual")
        ~> (reports[r].status \in {"Analyzed_Visual", "Error"})

-----------------------------------------------------------------------------
(* C30 *)

\* C30: when the cache holds stations of the requested category, the lookup
\* returns one of them or the default depot, never a station of a fallback
\* category; it returns the default depot when none of them has coordinates,
\* even if a fallback category holds a station with coordinates.
C30_DepotWhenOwnCategoryUnusable ==
    \A c \in procs :
        (AskedDirectory(agent[c])
            /\ HasType(agent[c].stations_cache, agent[c].station_type[1]))
        => LET cache == agent[c].stations_cache
               type == agent[c].station_type[1]
           IN /\ \/ agent[c].station[1] = DEFAULT_DEPOT
                 \/ IsStationOf(agent[c].station[1], cache, type)
              /\ (\A j \in 1..Len(cache) : cache[j].type = type => NoCoordinates(cache[j]))
                    => agent[c].station[1] = DEFAULT_DEPOT

\* The fire category was asked for, the only fire station has no
\* coordinates, the rescue station of the fallback chain has, and the lookup
\* returned the default depot.
C30_Witness ==
    \E c \in procs :
        /\ AskedDirectory(agent[c])
        /\ agent[c].station_type[1] = "fire"
        /\ \E j \in 1..Len(agent[c].stations_cache) :
              agent[c].stations_cache[j].type = "fire"
        /\ \A j \in 1..Len(agent[c].stations_cache) :
              agent[c].stations_cache[j].type = "fire"
                 => NoCoordinates(agent[c].stations_cache[j])
        /\ \E j \in 1..Len(agent[c].stations_cache) :
              /\ agent[c].stations_cache[j].type = "rescue"
              /\ ~NoCoordinates(agent[c].stations_cache[j])
        /\ agent[c].station[1] = DEFAULT_DEPOT

\* ---------------------------------------------------------------------
\* C31: the passes of the sentinel's main loop and its end
\* ---------------------------------------------------------------------

\* The while loop of main of sentinel w has ended by its break.
LoopEnded(w) == w.pc = "exited"

\* The loop of w ends after exactly n passes: it has not ended before the
\* n-th pass is counted and it has ended once it is.
EndsAfterExactly(w, n) ==
    /\ LoopEnded(w) => w.cycle_count = n
    /\ ~LoopEnded(w) => w.cycle_count < n

\* In one pass of the loop at most one report is locked, and the report
\* being processed is that one.
OneReportPerCycle(w) ==
    /\ Len(w.cycle_locked) <= 1
    /\ w.report # Absent => w.cycle_locked = <<w.report[1]>>

\* An exception caught by the loop has not ended it: the sleep and the
\* count of the pass follow.
ExceptionKeepsLoop(w) == w.loop_error # Absent => w.pc = "sleep"

\* A step of sentinel s counts passes one at a time and only at the end of a
\* pass, and it counts the pass in which the loop caught an exception.
CountsTheCycle(s) ==
    LET w == sentinel[s]
        after == sentinel'[s]
    IN /\ after.cycle_count # w.cycle_count
            => w.pc = "sleep" /\ after.cycle_count = w.cycle_count + 1
       /\ (w.loop_error # Absent /\ after # w)
            => /\ after.pc \in {"poll", "exited"}
               /\ w.cycle_count < MaxCycleCount
                     => after.cycle_count = w.cycle_count + 1

\* The statement as it was made, for the end of the loop: one pass under
\* RUN_ONCE, MAX_CYCLES passes whenever MAX_CYCLES > 0, no end when RUN_ONCE
\* is unset and MAX_CYCLES is 0.
C31_EndsAtEitherLimit ==
    \A s \in DOMAIN sentinel :
        LET w == sentinel[s]
        IN /\ OneReportPerCycle(w)
           /\ ExceptionKeepsLoop(w)
           /\ w.RUN_ONCE => EndsAfterExactly(w, 1)
           /\ w.MAX_CYCLES > 0 => EndsAfterExactly(w, w.MAX_CYCLES)
           /\ (~w.RUN_ONCE /\ w.MAX_CYCLES = 0) => ~LoopEnded(w)

\* The same with RUN_ONCE taking precedence over MAX_CYCLES.
EndsAtTheLimit ==
    \A s \in DOMAIN sentinel :
        LET w == sentinel[s]
        IN /\ OneReportPerCycle(w)
           /\ ExceptionKeepsLoop(w)
           /\ w.RUN_ONCE => EndsAfterExactly(w, 1)
           /\ (~w.RUN_ONCE /\ w.MAX_CYCLES > 0) => EndsAfterExactly(w, w.MAX_CYCLES)
           /\ (~w.RUN_ONCE /\ w.MAX_CYCLES = 0) => ~LoopEnded(w)

\* C31: the sentinel's main loop locks and processes at most one report per
\* pass; it ends after exactly one pass when RUN_ONCE is set, after exactly
\* MAX_CYCLES passes when RUN_ONCE is unset and MAX_CYCLES > 0, and never by
\* itself when RUN_ONCE is unset and MAX_CYCLES is 0; a pass in which the
\* loop caught an exception is counted like any other and does not end the
\* loop.
C31_OneReportPerCycleEndsAtLimit ==
    /\ []EndsAtTheLimit
    /\ [][\A s \in DOMAIN sentinel : CountsTheCycle(s)]_vars

\* A sentinel with RUN_ONCE unset and MAX_CYCLES = 2 has left the loop after
\* its second pass, having locked one report in each.
C31_Witness ==
    \E s \in DOMAIN sentinel :
        /\ ~sentinel[s].RUN_ONCE
        /\ sentinel[s].MAX_CYCLES = 2
        /\ LoopEnded(sentinel[s])
        /\ sentinel[s].cycle_count = 2
        /\ Len(sentinel[s].locked) = 2

====
